---- MODULE Spec2Model ----
(***************************************************************************)
(* Model of github.com/StalkR/openid:                                      *)
(*   - package openid20: the OpenID 2.0 indirect flow, in its two forms,   *)
(*     the package-level Verify(r) and the method Auth.Verify(r);          *)
(*   - package openid: the OpenID Connect ID-token flow (Redirect, the     *)
(*     /auth/callback handler, User).                                      *)
(*                                                                         *)
(* A Go string is a sequence of tokens.  A token is a TLA+ string standing *)
(* for the characters it spells; the Go string is the concatenation of its *)
(* tokens.  The alphabet is chosen so that no token is a concatenation of  *)
(* other tokens, hence two token sequences are equal exactly when the Go   *)
(* strings are.  The empty Go string is <<>>.                              *)
(***************************************************************************)
EXTENDS Integers, Sequences, FiniteSets, Bags, TLC

\* ------------------------------------------------------------------------
\* strings
\* ------------------------------------------------------------------------

EmptyStr == <<>>

S(t) == <<t>>

\* strings.Index for a one-token separator: first position of t in s, 0 if none.
IndexOf(s, t) ==
  IF \E i \in 1..Len(s) : s[i] = t
  THEN CHOOSE i \in 1..Len(s) : s[i] = t /\ \A j \in 1..(i - 1) : s[j] # t
  ELSE 0

\* s[lo-1:] of Go, 1-based: the suffix of s starting at position lo.
From(s, lo) == SubSeq(s, lo, Len(s))

\* strings.Split(s, sep) for a one-token separator: always at least one piece.
RECURSIVE Split(_, _)
Split(s, sep) ==
  LET i == IndexOf(s, sep)
  IN  IF i = 0 THEN <<s>>
      ELSE <<SubSeq(s, 1, i - 1)>> \o Split(From(s, i + 1), sep)

\* strings.Join(pieces, sep).
RECURSIVE Join(_, _)
Join(pieces, sep) ==
  IF pieces = <<>> THEN <<>>
  ELSE IF Len(pieces) = 1 THEN pieces[1]
  ELSE pieces[1] \o <<sep>> \o Join(Tail(pieces), sep)

\* strings.Repeat(t, n) for a one-token string.
Repeat(t, n) == [i \in 1..n |-> t]

\* ------------------------------------------------------------------------
\* net/url: Values
\* ------------------------------------------------------------------------

\* url.Values is modelled as the sequence of (key, value) pairs in the order
\* the query lists them; the values of one key keep their order.
KV(k, v) == [k |-> k, v |-> v]

\* Values.Get: the first value of key k, "" when the key is absent.
Get(vals, k) ==
  IF \E i \in 1..Len(vals) : vals[i].k = k
  THEN vals[CHOOSE i \in 1..Len(vals) :
              vals[i].k = k /\ \A j \in 1..(i - 1) : vals[j].k # k].v
  ELSE EmptyStr

\* The keys of a Values map.
Keys(vals) == {vals[i].k : i \in 1..Len(vals)}

\* An invalid percent-escape ("%zz"): url.Parse rejects it in a host or a
\* path, url.ParseQuery drops the pair that holds it.
BadEscape == "%zz"

\* url.ParseQuery as URL.Query uses it (errors ignored): pairs are separated
\* by "&", empty pairs are skipped, a pair is cut at its first "=", a pair
\* that does not unescape is dropped.
RECURSIVE ParsePairs(_)
ParsePairs(pairs) ==
  IF pairs = <<>> THEN <<>>
  ELSE LET p    == pairs[1]
           i    == IndexOf(p, "=")
           key  == IF i = 0 THEN p ELSE SubSeq(p, 1, i - 1)
           val  == IF i = 0 THEN EmptyStr ELSE From(p, i + 1)
           rest == ParsePairs(Tail(pairs))
       IN  IF p = EmptyStr \/ IndexOf(p, BadEscape) # 0
           THEN rest
           ELSE <<KV(key, val)>> \o rest

ParseQuery(raw) == ParsePairs(Split(raw, "&"))

\* ------------------------------------------------------------------------
\* net/url: Parse and String
\* ------------------------------------------------------------------------

\* Tokens that begin with "/" (path segments) and the authority marker.
PathTokens == {"/", "/cb", "/other"}
SlashSlash == "//"

\* Tokens that getScheme stops at: anything that is not a letter, a digit,
\* "+", "-" or "." and is not the colon.
NonSchemeTokens == PathTokens \cup {SlashSlash, "?", "&", "=", BadEscape}

StartsWithSlash(s) == s # <<>> /\ s[1] \in PathTokens \cup {SlashSlash}

\* Position of the first token of s that begins with "/", Len(s)+1 if none.
FirstSlash(s) ==
  IF \E i \in 1..Len(s) : s[i] \in PathTokens \cup {SlashSlash}
  THEN CHOOSE i \in 1..Len(s) :
         /\ s[i] \in PathTokens \cup {SlashSlash}
         /\ \A j \in 1..(i - 1) : s[j] \notin PathTokens \cup {SlashSlash}
  ELSE Len(s) + 1

\* The decimal digits, one token each, and the tokens made of digits only.
Digits == {"0", "1", "2", "3", "4", "5", "6", "7", "8", "9"}
Numerals == Digits \cup {"8080"}

\* url.getScheme: the position of the colon that ends the scheme, 0 when the
\* string has no scheme, -1 for "missing protocol scheme" (a leading colon).
\* A string whose first character is a digit has no scheme.
SchemeColon(s) ==
  LET c == IndexOf(s, ":")
  IN  IF c = 0 THEN 0
      ELSE IF c = 1 THEN -1
      ELSE IF s[1] \in Numerals THEN 0
      ELSE IF \E j \in 1..(c - 1) : s[j] \in NonSchemeTokens THEN 0
      ELSE c

URL(ok, scheme, host, path, rawquery) ==
  [ok |-> ok, scheme |-> scheme, host |-> host, path |-> path,
   rawquery |-> rawquery]

ParseError == URL(FALSE, EmptyStr, EmptyStr, EmptyStr, EmptyStr)

\* url.validOptionalPort on the part of the host from its last colon on:
\* a colon followed by digits only.  A host without a colon has no port.
ValidHostPort(host) ==
  \A i \in 1..Len(host) :
    (host[i] = ":" /\ \A j \in (i + 1)..Len(host) : host[j] # ":")
      => \A j \in (i + 1)..Len(host) : host[j] \in Numerals

\* url.Parse, last step: the host and the path must unescape, the port
\* must be valid.
ParseHostPath(scheme, host, path, rawquery) ==
  IF IndexOf(host, BadEscape) # 0 \/ ~ValidHostPort(host) THEN ParseError
  ELSE IF IndexOf(path, BadEscape) # 0 THEN ParseError
  ELSE URL(TRUE, scheme, host, path, rawquery)

\* url.Parse, the authority: what follows "//" up to the next "/".
ParseAuthority(scheme, after, rawquery) ==
  ParseHostPath(scheme, SubSeq(after, 1, FirstSlash(after) - 1),
                From(after, FirstSlash(after)), rawquery)

\* url.Parse once scheme and query are cut off.  A URL with a scheme whose
\* rest does not begin with "/" is opaque: no host, no path.  Without a
\* scheme, a first path segment holding a colon is an error and a rest
\* beginning with "///" holds no authority.
ParseRest(scheme, rest, rawquery) ==
  IF ~StartsWithSlash(rest) /\ scheme # EmptyStr
    THEN URL(TRUE, scheme, EmptyStr, EmptyStr, rawquery)
  ELSE IF /\ ~StartsWithSlash(rest)
          /\ IndexOf(SubSeq(rest, 1, FirstSlash(rest) - 1), ":") # 0
    THEN ParseError
  ELSE IF /\ rest # <<>>
          /\ rest[1] = SlashSlash
          /\ (scheme # EmptyStr \/ ~StartsWithSlash(Tail(rest)))
    THEN ParseAuthority(scheme, Tail(rest), rawquery)
  ELSE ParseHostPath(scheme, EmptyStr, rest, rawquery)

\* url.Parse, the query: cut at the first "?".
ParseCut(scheme, rest, q) ==
  IF q = 0 THEN ParseRest(scheme, rest, EmptyStr)
  ELSE ParseRest(scheme, SubSeq(rest, 1, q - 1), From(rest, q + 1))

\* url.Parse, the scheme: c is getScheme's colon.
ParseScheme(s, c) ==
  IF c = -1 THEN ParseError
  ELSE IF c = 0 THEN ParseCut(EmptyStr, s, IndexOf(s, "?"))
  ELSE ParseCut(SubSeq(s, 1, c - 1), From(s, c + 1),
                IndexOf(From(s, c + 1), "?"))

\* url.Parse (not via a request line): the scheme, then the query, then an
\* authority after "//", then the path.  (Fragments, user info and control
\* characters are outside the alphabet.)
Parse(s) == ParseScheme(s, SchemeColon(s))

\* (&url.URL{Scheme: scheme, Host: host}).String().
SchemeHostString(scheme, host) ==
  (IF scheme # EmptyStr THEN scheme \o <<":">> ELSE <<>>)
  \o (IF host # EmptyStr THEN <<SlashSlash>> \o host ELSE <<>>)

\* ------------------------------------------------------------------------
\* time: Parse(time.RFC3339, ...) and the clock
\* ------------------------------------------------------------------------

\* Times are counted in milliseconds since 2024-01-01T00:00:00Z.
\* time.Minute, in milliseconds.
Minute == 60000

DigitValue(t) ==
  CASE t = "0" -> 0 [] t = "1" -> 1 [] t = "2" -> 2 [] t = "3" -> 3
    [] t = "4" -> 4 [] t = "5" -> 5 [] t = "6" -> 6 [] t = "7" -> 7
    [] t = "8" -> 8 [] t = "9" -> 9

\* The number spelled by the digits s[lo..hi].
RECURSIVE Number(_, _, _)
Number(s, lo, hi) ==
  IF hi < lo THEN 0 ELSE 10 * Number(s, lo, hi - 1) + DigitValue(s[hi])

AllDigits(s, lo, hi) == \A i \in lo..hi : s[i] \in Digits

IsLeap(y) == y % 4 = 0 /\ (y % 100 # 0 \/ y % 400 = 0)

\* time.daysIn.
DaysIn(m, y) ==
  IF m = 2 THEN (IF IsLeap(y) THEN 29 ELSE 28)
  ELSE IF m \in {4, 6, 9, 11} THEN 30 ELSE 31

\* Days from 1970-01-01 to the civil date y-m-d (proleptic Gregorian).
DaysFromCivil(y, m, d) ==
  LET yy  == IF m <= 2 THEN y - 1 ELSE y
      era == yy \div 400
      yoe == yy - era * 400
      mp  == IF m > 2 THEN m - 3 ELSE m + 9
      doy == (153 * mp + 2) \div 5 + d - 1
      doe == yoe * 365 + yoe \div 4 - yoe \div 100 + doy
  IN  era * 146097 + doe - 719468

EpochDays == DaysFromCivil(2024, 1, 1)

Time(ok, ms) == [ok |-> ok, ms |-> ms]

\* time.Parse(time.RFC3339, s) for a 20-character s.  The layout is
\* 2006-01-02T15:04:05Z07:00; in 20 characters only the form
\* YYYY-MM-DDTHH:MM:SSZ fits (a numeric zone or a fraction needs more, a
\* one-digit hour less), with every field in range.
ParseRFC3339(s) ==
  IF /\ Len(s) = 20
     /\ AllDigits(s, 1, 4) /\ s[5] = "-" /\ AllDigits(s, 6, 7) /\ s[8] = "-"
     /\ AllDigits(s, 9, 10) /\ s[11] = "T" /\ AllDigits(s, 12, 13)
     /\ s[14] = ":" /\ AllDigits(s, 15, 16) /\ s[17] = ":"
     /\ AllDigits(s, 18, 19) /\ s[20] = "Z"
  THEN LET y  == Number(s, 1, 4)
           mo == Number(s, 6, 7)
           d  == Number(s, 9, 10)
           h  == Number(s, 12, 13)
           mi == Number(s, 15, 16)
           se == Number(s, 18, 19)
       IN  IF /\ mo \in 1..12 /\ d >= 1 /\ d <= DaysIn(mo, y)
              /\ h < 24 /\ mi < 60 /\ se < 60
           THEN Time(TRUE, ((((DaysFromCivil(y, mo, d) - EpochDays) * 24 + h)
                              * 60 + mi) * 60 + se) * 1000)
           ELSE Time(FALSE, 0)
  ELSE Time(FALSE, 0)

\* ------------------------------------------------------------------------
\* package openid20
\* ------------------------------------------------------------------------

\* Errors are the messages the code builds; ErrNil is the nil error.
ErrNil == "nil"
ErrUnsigned == "must be signed but isn't"
ErrPost == "http.PostForm failed"
ErrRead == "ioutil.ReadAll failed"
ErrAssertion == "could not verify assertion"
ErrURLParse == "url.Parse failed"
ErrReturnTo == "scheme, host or path doesn't match return_to URL"
ErrParam == "URL query param mismatch"
ErrNonceInvalid == "invalid nonce"
ErrTimeParse == "time.Parse failed"
ErrNonceOld == "nonce too old"

\* An error with the field a gate-1 error names ("" for the other errors).
Err(msg, field) == [msg |-> msg, field |-> field]
NoErr == Err(ErrNil, EmptyStr)

OpenID(name) == S("openid." \o name)

NsLine == "ns:http://specs.openid.net/auth/2.0"
IsValidLine == "is_valid:true"

\* The map ok of verifySignedFields as first built: field -> already fine.
SignedFieldsInit(v) ==
  [f \in {"op_endpoint", "return_to", "response_nonce", "assoc_handle",
          "claimed_id", "identity"} |->
     CASE f = "claimed_id" -> Get(v, OpenID("claimed_id")) = EmptyStr
       [] f = "identity"   -> Get(v, OpenID("identity")) = EmptyStr
       [] OTHER            -> FALSE]

\* verifySignedFields with claimed_id required whatever the callback holds.
verifySignedFields_AlwaysClaimed(v) ==
  LET signed == Split(Get(v, OpenID("signed")), ",")
  IN  {f \in DOMAIN SignedFieldsInit(v) :
         /\ f = "claimed_id" \/ ~SignedFieldsInit(v)[f]
         /\ ~\E i \in 1..Len(signed) : signed[i] = S(f)}

\* verifySignedFields: the fields still false in ok after every item of the
\* comma-separated openid.signed was set true.  The code ranges over the map
\* in Go's unspecified order and reports the first false field it meets, so
\* any member of this set may be the one the error names; nil when empty.
verifySignedFields(v) ==
  LET ok     == SignedFieldsInit(v)
      signed == Split(Get(v, OpenID("signed")), ",")
  IN  {f \in DOMAIN ok :
         ~ok[f] /\ ~\E i \in 1..Len(signed) : signed[i] = S(f)}

\* verifySignature, the request: every parameter of the callback except
\* openid.mode, after openid.mode=check_authentication.
CheckParams(v) ==
  <<KV(OpenID("mode"), S("check_authentication"))>>
  \o SelectSeq(v, LAMBDA p : p.k # OpenID("mode"))

\* ReplyValid with either line being enough.
ReplyValid_Either(content) ==
  LET lines == Split(content, "\n")
  IN  \E i \in 1..Len(lines) : lines[i] \in {S(IsValidLine), S(NsLine)}

\* verifySignature, the reply: the body is split in lines; is_valid:true and
\* the namespace line must both be among them.
ReplyValid(content) ==
  LET lines   == Split(content, "\n")
      isValid == \E i \in 1..Len(lines) : lines[i] = S(IsValidLine)
      nsValid == \E i \in 1..Len(lines) : lines[i] = S(NsLine)
  IN  isValid /\ nsValid

\* The outcome of the POST: a transport failure, a failure reading the body,
\* or a body.
Reply(kind, content) == [kind |-> kind, content |-> content]

verifySignature(reply) ==
  IF reply.kind = "neterr" THEN Err(ErrPost, EmptyStr)
  ELSE IF reply.kind = "readerr" THEN Err(ErrRead, EmptyStr)
  ELSE IF ~ReplyValid(reply.content) THEN Err(ErrAssertion, EmptyStr)
  ELSE NoErr

\* "any param in return_to must also be present in v": for every key of the
\* return_to query, the first value in the request must equal the first
\* value in return_to.
ParamsMatch(returnTo, v) ==
  LET want == ParseQuery(returnTo.rawquery)
  IN  \A k \in Keys(want) : Get(v, k) = Get(want, k)

\* CheckReturnTo without the comparison of the paths.
CheckReturnTo_NoPath(sameScheme, host, path, returnTo, v) ==
  IF ~returnTo.ok THEN Err(ErrURLParse, EmptyStr)
  ELSE IF ~sameScheme \/ host # returnTo.host
    THEN Err(ErrReturnTo, EmptyStr)
  ELSE IF ~ParamsMatch(returnTo, v) THEN Err(ErrParam, EmptyStr)
  ELSE NoErr

\* verifyReturnTo once return_to is parsed: host and path (and, for
\* Auth.Verify, the scheme) of the live URL against return_to, then the
\* parameters.
CheckReturnTo(sameScheme, host, path, returnTo, v) ==
  IF ~returnTo.ok THEN Err(ErrURLParse, EmptyStr)
  ELSE IF ~sameScheme \/ host # returnTo.host \/ path # returnTo.path
    THEN Err(ErrReturnTo, EmptyStr)
  ELSE IF ~ParamsMatch(returnTo, v) THEN Err(ErrParam, EmptyStr)
  ELSE NoErr

\* verifyReturnTo of the package-level Verify: r.Host and r.URL.Path against
\* return_to; the scheme is not compared.
verifyReturnTo(r) ==
  CheckReturnTo(TRUE, r.host, r.path,
                Parse(Get(r.query, OpenID("return_to"))), r.query)

\* verifyReturnTo of Auth.Verify without the comparison of the schemes.
verifyReturnToAuth_NoScheme(currentURL, v) ==
  CheckReturnTo(TRUE, currentURL.host, currentURL.path,
                Parse(Get(v, OpenID("return_to"))), v)

\* verifyReturnTo of Auth.Verify: scheme, host and path of currentURL
\* against return_to.
verifyReturnToAuth(currentURL, v) ==
  CheckReturnTo(currentURL.scheme = Parse(Get(v, OpenID("return_to"))).scheme,
                currentURL.host, currentURL.path,
                Parse(Get(v, OpenID("return_to"))), v)

MaxNonceLen == 256
TimestampLen == 20

\* verifyNonce refusing a nonce that is exactly one minute old.
verifyNonce_NotAfter(v, t) ==
  LET nonce == Get(v, OpenID("response_nonce"))
      ts    == ParseRFC3339(SubSeq(nonce, 1, TimestampLen))
  IN  IF Len(nonce) < TimestampLen \/ Len(nonce) > MaxNonceLen
        THEN Err(ErrNonceInvalid, EmptyStr)
      ELSE IF ~ts.ok THEN Err(ErrTimeParse, EmptyStr)
      ELSE IF ts.ms + Minute <= t THEN Err(ErrNonceOld, EmptyStr)
      ELSE NoErr

\* verifyNonce at clock reading t: the length window, the timestamp in the
\* first 20 characters, and ts.Add(time.Minute).Before(time.Now()).
verifyNonce(v, t) ==
  LET nonce == Get(v, OpenID("response_nonce"))
      ts    == ParseRFC3339(SubSeq(nonce, 1, TimestampLen))
  IN  IF Len(nonce) < TimestampLen \/ Len(nonce) > MaxNonceLen
        THEN Err(ErrNonceInvalid, EmptyStr)
      ELSE IF ~ts.ok THEN Err(ErrTimeParse, EmptyStr)
      ELSE IF ts.ms + Minute < t THEN Err(ErrNonceOld, EmptyStr)
      ELSE NoErr

\* New(endpoint, returnTo).realm: scheme and host of the configured return
\* URL (New panics when it does not parse).
Realm(returnTo) ==
  LET u == Parse(returnTo) IN SchemeHostString(u.scheme, u.host)

\* r.URL.String() of a request in origin form: the path, then "?" and the
\* raw query when there is one.  The raw query is one opaque token: nothing
\* after the "?" of currentURL is read.
RequestURI(r) ==
  r.path \o (IF r.query = <<>> THEN <<>> ELSE <<"?", "rawquery">>)

CurrentURL(realm, r) == Parse(realm \o RequestURI(r))

\* ------------------------------------------------------------------------
\* The callbacks and provider replies the model ranges over
\* ------------------------------------------------------------------------

\* How many clock steps of half a second the model takes, how many ways an
\* exchange (callback plus provider reply) may depart from the well-formed
\* one, and how many Verify calls may be in progress at once.
MaxTicks == 2
MaxDeviations == 2
MaxCalls == 2

NL == "\n"
CR == "\r"

AppHost == S("app.example")
EvilHost == S("evil.example")
OpEndpoint == S("https://provider.example/login")
OtherEndpoint == S("https://evil.example/login")
ClaimedID == S("https://provider.example/id/1")

URLString(scheme, host, path, rawquery) ==
  <<scheme, ":", SlashSlash>> \o host \o path
  \o (IF rawquery = <<>> THEN <<>> ELSE <<"?">> \o rawquery)

\* The comma-separated list of the given field names.
SignedList(fields) == Join([i \in 1..Len(fields) |-> S(fields[i])], ",")

AllSix ==
  <<"op_endpoint", "return_to", "response_nonce", "assoc_handle",
    "claimed_id", "identity">>

Without(fields, f) == SelectSeq(fields, LAMBDA x : x # f)

\* 2024-01-01T00:00:SSZ with the two digits of the seconds given.
Stamp(s1, s2) ==
  <<"2", "0", "2", "4", "-", "0", "1", "-", "0", "1", "T",
    "0", "0", ":", "0", "0", ":", s1, s2, "Z">>

\* 2023-12-31T23:59:59Z, one second before the epoch of the model's clock.
StampBefore ==
  <<"2", "0", "2", "3", "-", "1", "2", "-", "3", "1", "T",
    "2", "3", ":", "5", "9", ":", "5", "9", "Z">>

\* Per dimension of an exchange: the well-formed value ...
Base ==
  [signed   |-> SignedList(AllSix),
   claimed  |-> ClaimedID,
   identity |-> ClaimedID,
   returnTo |-> URLString("https", AppHost, S("/cb"), <<>>),
   scheme   |-> S("https"),
   host     |-> AppHost,
   path     |-> S("/cb"),
   extra    |-> <<>>,
   nonce    |-> Stamp("0", "0") \o S("x"),
   endpoint |-> OpEndpoint,
   reply    |-> Reply("body", <<NsLine, NL, IsValidLine, NL>>)]

\* ... and the other values it may take.
Options ==
  [signed   |-> {SignedList(Without(AllSix, AllSix[i])) : i \in 1..Len(AllSix)}
                \cup {SignedList(SubSeq(AllSix, 1, 4)), EmptyStr, AllSix},
   claimed  |-> {EmptyStr},
   identity |-> {EmptyStr},
   returnTo |-> {URLString("http", AppHost, S("/cb"), <<>>),
                 URLString("https", EvilHost, S("/cb"), <<>>),
                 URLString("https", AppHost, S("/other"), <<>>),
                 URLString("https", AppHost, S("/cb"), <<"k", "=", "a">>),
                 URLString("https", AppHost, S("/cb"), <<"k", "=">>),
                 URLString("https", AppHost, S("/cb"),
                           <<"k", "=", "a", "&", "k", "=", "b">>),
                 <<":", SlashSlash>> \o AppHost \o S("/cb"),
                 EmptyStr},
   scheme   |-> {S("http")},
   host     |-> {EvilHost},
   path     |-> {S("/other")},
   extra    |-> {<<KV(S("k"), S("a"))>>, <<KV(S("k"), S("b"))>>,
                 <<KV(S("k"), S("a")), KV(S("k"), S("c"))>>},
   nonce    |-> {Stamp("0", "1") \o S("x"),
                 Stamp("0", "0"),
                 SubSeq(Stamp("0", "0"), 1, TimestampLen - 1),
                 Stamp("0", "x") \o S("x"),
                 Stamp("6", "0") \o S("x"),
                 StampBefore \o S("x"),
                 Stamp("0", "1") \o Repeat("x", MaxNonceLen - TimestampLen),
                 Stamp("0", "1") \o Repeat("x", MaxNonceLen - TimestampLen + 1)},
   endpoint |-> {OtherEndpoint},
   reply    |-> {Reply("body", <<IsValidLine, NL, NsLine>>),
                 Reply("body", <<IsValidLine, NL>>),
                 Reply("body", <<NsLine, NL>>),
                 Reply("body", <<NsLine, NL, "is_valid:false", NL>>),
                 Reply("body", <<>>),
                 Reply("body", <<NsLine, NL, "is_valid:false", NL,
                                 IsValidLine, NL>>),
                 Reply("body", <<NsLine, CR, NL, IsValidLine, CR, NL>>),
                 Reply("neterr", <<>>),
                 Reply("readerr", <<>>)}]

\* The exchanges that differ from Base in at most n dimensions.
RECURSIVE Exchanges(_)
Exchanges(n) ==
  IF n = 0 THEN {Base}
  ELSE LET prev == Exchanges(n - 1)
       IN  prev \cup UNION {{[x EXCEPT ![d] = o] : o \in Options[d]} :
                              x \in prev, d \in DOMAIN Options}

Scenarios == Exchanges(MaxDeviations)

\* The request the server receives for an exchange: the scheme it came in
\* by (https when r.TLS is set; the code never reads it), the Host header,
\* the path and the decoded query (the parameters of the return URL first,
\* then the provider's).
Request(x) ==
  [scheme |-> x.scheme,
   host   |-> x.host,
   path   |-> x.path,
   query  |-> x.extra
             \o <<KV(OpenID("ns"), S("http://specs.openid.net/auth/2.0")),
                  KV(OpenID("mode"), S("id_res")),
                  KV(OpenID("op_endpoint"), x.endpoint)>>
             \o (IF x.claimed = EmptyStr THEN <<>>
                 ELSE <<KV(OpenID("claimed_id"), x.claimed)>>)
             \o (IF x.identity = EmptyStr THEN <<>>
                 ELSE <<KV(OpenID("identity"), x.identity)>>)
             \o <<KV(OpenID("return_to"), x.returnTo),
                  KV(OpenID("response_nonce"), x.nonce),
                  KV(OpenID("assoc_handle"), S("handle1")),
                  KV(OpenID("signed"), x.signed),
                  KV(OpenID("sig"), S("sig1"))>>]

\* ------------------------------------------------------------------------
\* State
\* ------------------------------------------------------------------------

VARIABLES
  realm,   \* Auth.realm of the helper built by New(endpoint, returnTo)
  now,     \* time.Now(), in milliseconds since 2024-01-01T00:00:00Z
  calls,   \* the Verify calls: per call its position, request and outcome
  jar,     \* token flow: the browser's cookies for the application
  last,    \* token flow: the last operation, its request and its response
  pending, \* token flow: the requests that wait in the verifier, a bag
  built    \* the last call of RedirectURL or New, its arguments and outcome

vars == <<realm, now, calls, jar, last, pending, built>>

\* The variables of the indirect flow and those of the token flow.
indirectVars == <<realm, calls>>
tokenVars == <<jar, last, pending>>

CallIds == 1..MaxCalls

NoRequest ==
  [scheme |-> EmptyStr, host |-> EmptyStr, path |-> EmptyStr, query |-> <<>>]
NoReply == Reply("none", <<>>)

\* A call that has not begun.  variant is "pkg" for the package-level
\* Verify(r) and "auth" for Auth.Verify(r); provider is what the provider's
\* endpoint answers to this call's POST; posts are the POSTs the call has
\* sent; gates are the gates it has entered, in order; at is the clock
\* reading verifyNonce took; cancelled tells that the context of the
\* incoming request was cancelled while the POST was outstanding.
Idle ==
  [pc |-> "idle", variant |-> "none", r |-> NoRequest, provider |-> NoReply,
   posts |-> <<>>, gates |-> <<>>, id |-> EmptyStr, err |-> NoErr, at |-> 0,
   cancelled |-> FALSE]

\* The clock starts one minute after the epoch and moves in steps of half
\* a second.
ClockStart == Minute
ClockEnd == ClockStart + MaxTicks * 500

ReturnToConfigs ==
  {URLString("https", AppHost, S("/cb"), <<>>),
   URLString("http", AppHost, S("/cb"), <<>>)}

\* ------------------------------------------------------------------------
\* Package openid: the ID-token flow
\* ------------------------------------------------------------------------

callback == S("/auth/callback")

nonceCookie == "__Host-AuthNonce"
tokenCookie == "__Host-AuthToken"

oneHour == 60 * 60
oneYear == 365 * 24 * 60 * 60

\* The length randBytes is asked for.
NonceBytes == 20

StatusOK == 200
StatusFound == 302
StatusInternalServerError == 500

\* Config.ClientID, the issuer behind Config.Provider and the authorization
\* endpoint its discovery document names.
ClientID == S("client.apps.example")
Issuer == S("https://provider.example")
AuthURL == <<"https", ":", SlashSlash, "provider.example", "/authorize">>

\* encoding/hex: two lower-case digits per byte, high nibble first.
HexDigits ==
  <<"0", "1", "2", "3", "4", "5", "6", "7",
    "8", "9", "a", "b", "c", "d", "e", "f">>

EncodeToString(bytes) ==
  [i \in 1..(2 * Len(bytes)) |->
     IF i % 2 = 1 THEN HexDigits[(bytes[(i + 1) \div 2] \div 16) + 1]
     ELSE HexDigits[(bytes[i \div 2] % 16) + 1]]

\* The byte strings crypto/rand is taken to give: two of the 256^length.
Draws(length) ==
  {[i \in 1..length |-> 0], [i \in 1..length |-> (i * 37) % 256]}

\* rand.Read(b) of crypto/rand: it fills b and returns a nil error, or the
\* system's random source fails and it returns the error.  (The go
\* directives of the module admit toolchains before go1.24, under which
\* rand.Read returns that error; from go1.24 on it never does.)
randRead(length) ==
  {[b |-> d, err |-> <<>>] : d \in Draws(length)}
  \cup {[b |-> <<>>, err |-> <<"read rand failed">>]}

\* randBytes(length): the bytes rand.Read gave, or a panic with the error it
\* returned.
randBytes(length) ==
  {IF r.err # <<>> THEN [panic |-> TRUE, b |-> <<>>]
   ELSE [panic |-> FALSE, b |-> r.b] : r \in randRead(length)}

\* An ID token as the verifier and the claims decoder read it: form is
\* "jwt" for a compact JWT and "garbage" for anything else, iss and aud are
\* its issuer and audience, exp its expiry on the clock, claims whether the
\* payload decodes into the claims struct, and email, verified, nonce its
\* claims.  A token string is <<token>>; the empty string is <<>>.
Token(form, iss, aud, exp, claims, email, verified, nonce) ==
  [form |-> form, iss |-> iss, aud |-> aud, exp |-> exp,
   claims |-> claims, email |-> email, verified |-> verified, nonce |-> nonce]

\* An error is the sequence of the pieces of its message; nil is <<>>.
Nil == <<>>

\* What the token verifier finds of the signature of the token bytes it is
\* given.  The verifier is an external collaborator: how it judges a
\* signature, and with which keys, is its own business, so its finding is
\* an input of every call.
SignatureFindings == {"ok", "bad"}

\* The token verifier behind s.provider.Verifier(config).Verify: it
\* validates the signature, the issuer, the audience and, unless
\* skipExpiry, the expiry of the token string read at clock reading t, sig
\* being its finding on the signature.  The error it fails with, Nil when
\* it returns the token's claims; the order of the checks only picks the
\* error of a token that fails several.
VerifierVerify(clientID, token, skipExpiry, t, sig) ==
  IF token = EmptyStr THEN <<"verifier: ", "not a token">>
  ELSE IF token[1].form # "jwt" THEN <<"verifier: ", "not a token">>
  ELSE IF token[1].iss # Issuer THEN <<"verifier: ", "issuer">>
  ELSE IF token[1].aud # clientID THEN <<"verifier: ", "audience">>
  ELSE IF ~skipExpiry /\ token[1].exp < t THEN <<"verifier: ", "expired">>
  ELSE IF sig # "ok" THEN <<"verifier: ", "signature">>
  ELSE Nil

Verified(email, nonce, err) == [email |-> email, nonce |-> nonce, err |-> err]

\* verify accepting a token whatever its email_verified claim says.
verify_AnyEmail(clientID, token, skipExpiry, t, sig) ==
  IF VerifierVerify(clientID, token, skipExpiry, t, sig) # Nil
  THEN Verified(EmptyStr, EmptyStr, VerifierVerify(clientID, token, skipExpiry, t, sig))
  ELSE IF token[1].claims # "ok"
  THEN Verified(EmptyStr, EmptyStr, <<"claims: ", "json: cannot unmarshal">>)
  ELSE Verified(token[1].email, token[1].nonce, Nil)

\* Auth.verify: the email and the nonce of the token, or an error.
verify(clientID, token, skipExpiry, t, sig) ==
  IF VerifierVerify(clientID, token, skipExpiry, t, sig) # Nil
  THEN Verified(EmptyStr, EmptyStr, VerifierVerify(clientID, token, skipExpiry, t, sig))
  ELSE IF token[1].claims # "ok"
  THEN Verified(EmptyStr, EmptyStr, <<"claims: ", "json: cannot unmarshal">>)
  ELSE IF ~token[1].verified
  THEN Verified(EmptyStr, EmptyStr, <<"email not verified: ">> \o token[1].email)
  ELSE Verified(token[1].email, token[1].nonce, Nil)

\* setCookie: the Set-Cookie header it adds to the response.
setCookie(name, value, maxAge) ==
  [name |-> name, value |-> value, path |-> "/", maxAge |-> maxAge,
   secure |-> TRUE, httpOnly |-> TRUE, sameSite |-> "Strict"]

deleteCookie(name) == setCookie(name, EmptyStr, -1)

\* A cookie of the request as r.Cookie finds it: set is FALSE when the
\* request has no cookie of that name (http.ErrNoCookie).
Cookie(set, value) == [set |-> set, value |-> value]
NoCookie == Cookie(FALSE, EmptyStr)

\* A response: status, Location header, body (the pieces written), the
\* Set-Cookie headers in the order they were added, and the steps the
\* handler took, in order.
Response(status, location, body, cookies, steps) ==
  [status |-> status, location |-> location, body |-> body,
   cookies |-> cookies, steps |-> steps]
NoResponse == Response(0, EmptyStr, <<>>, <<>>, <<>>)

\* url.QueryEscape, token by token: ":", "/", "?", "&", "=" and "%" are
\* escaped, the other tokens the model uses are made of unreserved
\* characters.
QueryEscapeToken(t) ==
  CASE t = ":" -> "%3A"
    [] t = SlashSlash -> "%2F%2F"
    [] t = "/" -> "%2F"
    [] t = "/cb" -> "%2Fcb"
    [] t = "/other" -> "%2Fother"
    [] t = "/auth/callback" -> "%2Fauth%2Fcallback"
    [] t = "/auth/2.0" -> "%2Fauth%2F2.0"
    [] t = "/auth/2.0/identifier_select" -> "%2Fauth%2F2.0%2Fidentifier_select"
    [] t = "/extensions/sreg/1.1" -> "%2Fextensions%2Fsreg%2F1.1"
    [] t = "/login" -> "%2Flogin"
    [] t = "?" -> "%3F"
    [] t = "&" -> "%26"
    [] t = "=" -> "%3D"
    [] t = BadEscape -> "%25zz"
    [] OTHER -> t

QueryEscape(s) == [i \in 1..Len(s) |-> QueryEscapeToken(s[i])]

\* Values.Encode: "key=value" pairs joined by "&", sorted by key.  sorted
\* lists the keys of the map in that order.
Encode(vals, sorted) ==
  Join([i \in 1..Len(sorted) |->
          <<sorted[i], "=">> \o QueryEscape(Get(vals, sorted[i]))], "&")

\* strings.Contains for a one-token needle.
Contains(s, t) == IndexOf(s, t) # 0

\* The Location Auth.Redirect sends the browser to.
RedirectLocation(clientID, authURL, host, nonce) ==
  authURL \o (IF Contains(authURL, "?") THEN <<"&">> ELSE <<"?">>)
  \o Encode(<<KV("response_type", S("id_token")),
              KV("client_id", clientID),
              KV("redirect_uri", URLString("https", host, callback, <<>>)),
              KV("scope", S("email")),
              KV("nonce", nonce)>>,
            <<"client_id", "nonce", "redirect_uri", "response_type", "scope">>)

\* html.EscapeString, as http.Redirect applies it to the URL.
HTMLEscape(s) == [i \in 1..Len(s) |-> IF s[i] = "&" THEN "&amp;" ELSE s[i]]

\* http.Redirect: the body it writes, a link to the URL for a GET request
\* and nothing for the other methods.
RedirectBody(method, location) ==
  IF method = "GET"
  THEN <<"<a href=\"">> \o HTMLEscape(location) \o <<"\">Found</a>.", NL, NL>>
  ELSE <<>>

\* What a handler that panics leaves in w: the Set-Cookie headers it had
\* added, no status and no body.
Panicked(cookies, steps) == Response(0, EmptyStr, <<>>, cookies, steps)

\* Auth.Redirect: the response it writes for a request to host with the
\* given method, randBytes having ended as draw.
RedirectResponse(clientID, authURL, host, method, draw) ==
  IF draw.panic
  THEN Panicked(<<deleteCookie(tokenCookie)>>, <<"deleteCookie", "panic">>)
  ELSE Response(StatusFound,
                RedirectLocation(clientID, authURL, host, EncodeToString(draw.b)),
                RedirectBody(method,
                             RedirectLocation(clientID, authURL, host,
                                              EncodeToString(draw.b))),
                <<deleteCookie(tokenCookie),
                  setCookie(nonceCookie, EncodeToString(draw.b), oneHour)>>,
                <<"deleteCookie", "setCookie", "redirect">>)

\* http.Error: the status and the message, then a newline.
Error(msg, steps) ==
  Response(StatusInternalServerError, EmptyStr, msg \o <<NL>>, <<>>, steps)

\* Auth.handle deleting the nonce cookie when the nonce does not match.
handlePost_ClearsNonce(idToken, c, v) ==
  IF v.err # Nil
  THEN Error(<<"Invalid ID token: ">> \o v.err, <<"verify">>)
  ELSE IF ~c.set \/ v.nonce # c.value
  THEN Response(StatusInternalServerError, EmptyStr,
                <<"Invalid nonce">> \o <<NL>>,
                <<deleteCookie(nonceCookie)>>,
                <<"verify", "nonce", "deleteCookie">>)
  ELSE Response(StatusFound, S("/"), <<>>,
                <<deleteCookie(nonceCookie),
                  setCookie(tokenCookie, idToken, oneYear)>>,
                <<"verify", "nonce", "deleteCookie", "setCookie", "redirect">>)

\* Auth.handle storing the token without comparing the nonce.
handlePost_NoNonce(idToken, c, v) ==
  IF v.err # Nil
  THEN Error(<<"Invalid ID token: ">> \o v.err, <<"verify">>)
  ELSE Response(StatusFound, S("/"), <<>>,
                <<deleteCookie(nonceCookie),
                  setCookie(tokenCookie, idToken, oneYear)>>,
                <<"verify", "nonce", "deleteCookie", "setCookie", "redirect">>)

\* Auth.handle for a request that is not a GET: idToken is the id_token
\* form value, c the nonce cookie of the request, v what verify returned.
handlePost(idToken, c, v) ==
  IF v.err # Nil
  THEN Error(<<"Invalid ID token: ">> \o v.err, <<"verify">>)
  ELSE IF ~c.set \/ v.nonce # c.value
  THEN Error(<<"Invalid nonce">>, <<"verify", "nonce">>)
  ELSE Response(StatusFound, S("/"), <<>>,
                <<deleteCookie(nonceCookie),
                  setCookie(tokenCookie, idToken, oneYear)>>,
                <<"verify", "nonce", "deleteCookie", "setCookie", "redirect">>)

\* Auth.handle clearing the nonce cookie when it serves the relay page.
handleResponse_GetClears(clientID, method, idToken, c, t, sig) ==
  IF method = "GET"
  THEN Response(StatusOK, EmptyStr, <<"relay page">>,
                <<deleteCookie(nonceCookie)>>, <<"relay">>)
  ELSE handlePost(idToken, c, verify(clientID, idToken, FALSE, t, sig))

\* Auth.handle: the response to a request with the given method, id_token
\* form value and nonce cookie, at clock reading t.
handleResponse(clientID, method, idToken, c, t, sig) ==
  IF method = "GET"
  THEN Response(StatusOK, EmptyStr, <<"relay page">>, <<>>, <<"relay">>)
  ELSE handlePost(idToken, c, verify(clientID, idToken, FALSE, t, sig))

\* Auth.User turning away a browser that still holds a nonce cookie.
UserResult_NeedsLogin(clientID, c, t, sig) ==
  IF ~c.set THEN Verified(EmptyStr, EmptyStr, <<"no auth token cookie">>)
  ELSE IF jar[nonceCookie].set
  THEN Verified(EmptyStr, EmptyStr, <<"invalid ID token: ">> \o <<"login pending">>)
  ELSE IF verify(clientID, c.value, TRUE, t, sig).err # Nil
  THEN Verified(EmptyStr, EmptyStr,
                <<"invalid ID token: ">> \o verify(clientID, c.value, TRUE, t, sig).err)
  ELSE Verified(verify(clientID, c.value, TRUE, t, sig).email, EmptyStr, Nil)

\* Auth.User returning the error of verify as it is.
UserResult_Unwrapped(clientID, c, t, sig) ==
  IF ~c.set THEN Verified(EmptyStr, EmptyStr, <<"no auth token cookie">>)
  ELSE verify(clientID, c.value, TRUE, t, sig)

\* Auth.User: the steps it takes for a request whose token cookie is c.
UserSteps(c) == IF ~c.set THEN <<"cookie">> ELSE <<"cookie", "verify">>

\* Auth.User: the email and the error for a request whose token cookie is c.
UserResult(clientID, c, t, sig) ==
  IF ~c.set THEN Verified(EmptyStr, EmptyStr, <<"no auth token cookie">>)
  ELSE IF verify(clientID, c.value, TRUE, t, sig).err # Nil
  THEN Verified(EmptyStr, EmptyStr,
                <<"invalid ID token: ">> \o verify(clientID, c.value, TRUE, t, sig).err)
  ELSE Verified(verify(clientID, c.value, TRUE, t, sig).email, EmptyStr, Nil)

\* The browser applying the Set-Cookie headers of a response, in order: a
\* negative Max-Age removes the cookie, any other stores the value.
RECURSIVE Apply(_, _)
Apply(cookies, headers) ==
  IF headers = <<>> THEN cookies
  ELSE Apply([cookies EXCEPT ![headers[1].name] =
                IF headers[1].maxAge < 0 THEN NoCookie
                ELSE Cookie(TRUE, headers[1].value)],
             Tail(headers))

\* ------------------------------------------------------------------------
\* The tokens and cookies the model ranges over
\* ------------------------------------------------------------------------

\* How many claims or properties of a token may depart from BaseToken.
MaxTokenFaults == 1

FirstNonce == EncodeToString([i \in 1..NonceBytes |-> 0])

\* The token the provider issues for the login that drew FirstNonce; it
\* expires half a second after the clock starts.
BaseToken ==
  Token("jwt", Issuer, ClientID, ClockStart + 500, "ok",
        S("user@example.com"), TRUE, FirstNonce)

TokenOptions ==
  [form     |-> {"garbage"},
   iss      |-> {S("https://other.example")},
   aud      |-> {S("other.apps.example")},
   exp      |-> {ClockStart - 1, ClockStart + 60 * Minute},
   claims   |-> {"undecodable"},
   email    |-> {S("other@example.com")},
   verified |-> {FALSE},
   nonce    |-> {EmptyStr} \cup {EncodeToString(b) : b \in Draws(NonceBytes)}]

\* The tokens that differ from BaseToken in at most n fields.
RECURSIVE Tokens(_)
Tokens(n) ==
  IF n = 0 THEN {BaseToken}
  ELSE LET prev == Tokens(n - 1)
       IN  prev \cup UNION {{[x EXCEPT ![d] = o] : o \in TokenOptions[d]} :
                              x \in prev, d \in DOMAIN TokenOptions}

\* The token strings a client may present: the empty string and the tokens.
TokenStrings == {EmptyStr} \cup {<<x>> : x \in Tokens(MaxTokenFaults)}

\* In how many places a token string departs from <<BaseToken>>.
Faults(token) ==
  IF token = EmptyStr THEN 1
  ELSE Cardinality({d \in DOMAIN TokenOptions : token[1][d] # BaseToken[d]})


\* The values a client may give its nonce cookie.
NonceStrings == {EmptyStr} \cup {EncodeToString(b) : b \in Draws(NonceBytes)}

CookieNames == {nonceCookie, tokenCookie}

\* The operation of the token flow that ended in the last step, none when
\* the step ended none: op names it, method, token and
\* cookie are what it read from the request (the id_token form value and
\* the nonce cookie for handle, the token cookie for User), at is the clock
\* reading, resp the response written (for User, which writes none, the
\* steps it took), email and err what User returned.
Op(op, method, token, cookie, at, sig, resp, email, err) ==
  [op |-> op, method |-> method, token |-> token, cookie |-> cookie,
   at |-> at, sig |-> sig, resp |-> resp, email |-> email, err |-> err]
NoOp == Op("none", "", EmptyStr, NoCookie, 0, "none", NoResponse, EmptyStr, Nil)

\* A request that waits in the verifier: what was read from it when it
\* arrived (as for Op) and the clock reading then.  The requests waiting
\* are a bag of these: two of them can be alike.
Pending(op, method, token, cookie, at) ==
  [op |-> op, method |-> method, token |-> token, cookie |-> cookie, at |-> at]
NoPending == EmptyBag
One(p) == SetToBag({p})

\* In how many places a set of token strings departs from <<BaseToken>>.
RECURSIVE SumFaults(_)
SumFaults(tokens) ==
  IF tokens = {} THEN 0
  ELSE LET t == CHOOSE x \in tokens : TRUE
       IN  Faults(t) + SumFaults(tokens \ {t})

\* The token strings in play: those of the waiting requests b, that of the
\* token cookie c and the one arriving.
InPlay(b, c, arriving) ==
  {p.token : p \in BagToSet(b)} \cup arriving
  \cup (IF c.set THEN {c.value} ELSE {})

\* In how many places a moment of the token flow departs from a well-formed
\* login with one request at a time: the faults of the tokens in play, and
\* one for every request waiting next to another.
Departures(tokens, waiting) ==
  SumFaults(tokens) + (IF waiting > 1 THEN waiting - 1 ELSE 0)

\* ------------------------------------------------------------------------
\* Package openid20: building the authentication request
\* ------------------------------------------------------------------------

\* The query both RedirectURL functions encode, for a return URL and its
\* realm.
RedirectQuery(returnTo, rlm) ==
  Encode(<<KV("openid.ns", <<"http", ":", SlashSlash, "specs.openid.net", "/auth/2.0">>),
           KV("openid.mode", S("checkid_setup")),
           KV("openid.return_to", returnTo),
           KV("openid.realm", rlm),
           KV("openid.claimed_id",
              <<"http", ":", SlashSlash, "specs.openid.net",
                "/auth/2.0/identifier_select">>),
           KV("openid.identity",
              <<"http", ":", SlashSlash, "specs.openid.net",
                "/auth/2.0/identifier_select">>),
           KV("openid.ns.sreg",
              <<"http", ":", SlashSlash, "openid.net", "/extensions/sreg/1.1">>)>>,
         <<"openid.claimed_id", "openid.identity", "openid.mode", "openid.ns",
           "openid.ns.sreg", "openid.realm", "openid.return_to">>)

\* What a call of fn with (endpoint, returnTo) came to: a panic carrying
\* err, or the redirect URL.
Built(fn, endpoint, returnTo, panic, err, redirect) ==
  [fn |-> fn, endpoint |-> endpoint, returnTo |-> returnTo, panic |-> panic,
   err |-> err, url |-> redirect]
NotBuilt == Built("none", EmptyStr, EmptyStr, FALSE, ErrNil, EmptyStr)

\* RedirectURL(endpoint, returnTo), and New(endpoint, returnTo) followed by
\* Auth.RedirectURL(): realm and New panic with the error of url.Parse, and
\* nothing else fails.
RedirectURL(fn, endpoint, returnTo) ==
  IF ~Parse(returnTo).ok
  THEN Built(fn, endpoint, returnTo, TRUE, ErrURLParse, EmptyStr)
  ELSE Built(fn, endpoint, returnTo, FALSE, ErrNil,
             endpoint \o (IF Contains(endpoint, "?") THEN <<"&">> ELSE <<"?">>)
             \o RedirectQuery(returnTo, Realm(returnTo)))

\* The endpoints and return URLs the callers pass: the return URLs of the
\* exchanges, and each of them with one token dropped or replaced.
Endpoints ==
  {OpEndpoint, <<"https", ":", SlashSlash, "provider.example", "/login", "?", "a", "=", "b">>,
   EmptyStr}

\* A string with token i dropped, or replaced by one of a few tokens.
Edits(u, i) ==
  {SubSeq(u, 1, i - 1) \o From(u, i + 1)}
  \cup {SubSeq(u, 1, i - 1) \o <<t>> \o From(u, i + 1) :
          t \in {":", SlashSlash, BadEscape, "?", "8080", "x"}}

ReturnTos ==
  LET known == {Base.returnTo} \cup Options.returnTo
  IN  known \cup UNION {UNION {Edits(u, i) : i \in 1..Len(u)} : u \in known}

Init ==
  /\ realm \in {Realm(u) : u \in ReturnToConfigs}
  /\ now = ClockStart
  /\ calls = [c \in CallIds |-> Idle]
  /\ jar = [n \in CookieNames |-> NoCookie]
  /\ last = NoOp
  /\ pending = NoPending
  /\ built = NotBuilt

\* The token flow never reads the realm of the indirect flow.
InitToken ==
  /\ realm = Realm(URLString("https", AppHost, S("/cb"), <<>>))
  /\ now = ClockStart
  /\ calls = [c \in CallIds |-> Idle]
  /\ jar = [n \in CookieNames |-> NoCookie]
  /\ last = NoOp
  /\ pending = NoPending
  /\ built = NotBuilt

\* ------------------------------------------------------------------------
\* Verify
\* ------------------------------------------------------------------------

\* What Verify does before the POST.  Auth.Verify first parses
\* realm + r.URL.String(); both then run verifySignedFields.  The result is
\* the set of errors the call may return here; empty when it goes on.
BeforePost(variant, rlm, r) ==
  IF variant = "auth" /\ ~CurrentURL(rlm, r).ok
  THEN {Err(ErrURLParse, EmptyStr)}
  ELSE {Err(ErrUnsigned, S(f)) : f \in verifySignedFields(r.query)}

GatesBeforePost(variant, rlm, r) ==
  IF variant = "auth" /\ ~CurrentURL(rlm, r).ok THEN <<>> ELSE <<1>>

\* The POST going to one fixed endpoint instead of the callback's.
Post_FixedEndpoint(v) == [endpoint |-> OpEndpoint, params |-> CheckParams(v)]

\* The POST of verifySignature: to the openid.op_endpoint of the callback.
Post(v) == [endpoint |-> Get(v, OpenID("op_endpoint")), params |-> CheckParams(v)]

\* Gate 3 of either Verify.
ReturnToGate(variant, rlm, r) ==
  IF variant = "pkg" THEN verifyReturnTo(r)
  ELSE verifyReturnToAuth(CurrentURL(rlm, r), r.query)

Outcome(gates, id, err, at) == [gates |-> gates, id |-> id, err |-> err, at |-> at]

\* Verify without its return-URL gate.
Verify_SkipReturnTo(variant, rlm, r, reply, t) ==
  LET e2 == verifySignature(reply)
      e4 == verifyNonce(r.query, t)
  IN  IF e2 # NoErr THEN Outcome(<<1, 2>>, EmptyStr, e2, 0)
      ELSE IF e4 # NoErr THEN Outcome(<<1, 2, 3, 4>>, EmptyStr, e4, t)
      ELSE Outcome(<<1, 2, 3, 4>>, Get(r.query, OpenID("claimed_id")), NoErr, t)

\* What Verify does once the POST has ended with reply, at clock reading t:
\* the rest of verifySignature, then verifyReturnTo, then verifyNonce, then
\* the openid.claimed_id of the request.
Verify(variant, rlm, r, reply, t) ==
  LET e2 == verifySignature(reply)
      e3 == ReturnToGate(variant, rlm, r)
      e4 == verifyNonce(r.query, t)
  IN  IF e2 # NoErr THEN Outcome(<<1, 2>>, EmptyStr, e2, 0)
      ELSE IF e3 # NoErr THEN Outcome(<<1, 2, 3>>, EmptyStr, e3, 0)
      ELSE IF e4 # NoErr THEN Outcome(<<1, 2, 3, 4>>, EmptyStr, e4, t)
      ELSE Outcome(<<1, 2, 3, 4>>, Get(r.query, OpenID("claimed_id")), NoErr, t)

\* Returned refusing a nonce another call has been accepted with.
Returned_TracksNonce(call, out) ==
  IF /\ out.err = NoErr
     /\ \E d \in CallIds :
          /\ calls[d].pc = "done" /\ calls[d].err = NoErr
          /\ Get(calls[d].r.query, OpenID("response_nonce"))
               = Get(call.r.query, OpenID("response_nonce"))
  THEN [call EXCEPT !.pc = "done", !.gates = out.gates, !.id = EmptyStr,
                    !.err = Err(ErrNonceInvalid, EmptyStr), !.at = out.at]
  ELSE [call EXCEPT !.pc = "done", !.gates = out.gates, !.id = out.id,
                    !.err = out.err, !.at = out.at]

\* The call once Verify has returned out.
Returned(call, out) ==
  [call EXCEPT !.pc = "done", !.gates = out.gates, !.id = out.id,
               !.err = out.err, !.at = out.at]

\* The call once Verify has sent its POST.
Posting(call) ==
  [call EXCEPT !.pc = "posting", !.gates = <<1, 2>>,
               !.posts = <<Post(call.r.query)>>]

\* The call a callback begins: the request and what the provider will answer.
Begun(variant, x) ==
  [Idle EXCEPT !.variant = variant, !.r = Request(x), !.provider = x.reply]

\* Verify going on to the POST whatever gate 1 said.
Started_AlwaysPosts(call, rlm, errs) == {Posting(call)}

\* Verify up to the POST, for the call just begun.
Started(call, rlm, errs) ==
  IF errs = {} THEN {Posting(call)}
  ELSE {Returned(call, Outcome(GatesBeforePost(call.variant, rlm, call.r),
                               EmptyStr, e, 0)) : e \in errs}

StartedCall(call, rlm) ==
  Started(call, rlm, BeforePost(call.variant, rlm, call.r))

\* A callback arrives and Verify runs up to the POST: it returns the gate-1
\* error, or sends the POST and blocks on the reply.
VerifyStart(c) ==
  /\ calls[c].pc = "idle"
  /\ \E variant \in {"pkg", "auth"}, x \in Scenarios :
       \E call \in StartedCall(Begun(variant, x), realm) :
         calls' = [calls EXCEPT ![c] = call]
  /\ UNCHANGED <<realm, now, tokenVars, built>>

\* The POST ends (reply, transport failure or body-read failure) and Verify
\* runs to its return.
VerifyFinish(c) ==
  /\ calls[c].pc = "posting"
  /\ calls' = [calls EXCEPT ![c] =
       Returned(@, Verify(@.variant, realm, @.r, @.provider, now))]
  /\ UNCHANGED <<realm, now, tokenVars, built>>

\* The client goes away while the POST is outstanding: r.Context() is
\* cancelled.  verifySignature posts with http.PostForm, which takes no
\* context: the POST goes on and the call waits for its end.
Cancel(c) ==
  /\ calls[c].pc = "posting"
  /\ ~calls[c].cancelled
  /\ calls' = [calls EXCEPT ![c].cancelled = TRUE]
  /\ UNCHANGED <<realm, now, tokenVars, built>>

\* The caller takes the result; the call slot is free again.
Return(c) ==
  /\ calls[c].pc = "done"
  /\ calls' = [calls EXCEPT ![c] = Idle]
  /\ UNCHANGED <<realm, now, tokenVars, built>>

\* The clock advances.
Tick ==
  /\ now < ClockEnd
  /\ now' = now + 500
  /\ last' = NoOp
  /\ UNCHANGED <<realm, calls, jar, pending, built>>

\* One Verify call at a time.
Next ==
  \/ VerifyStart(1)
  \/ Cancel(1)
  \/ VerifyFinish(1)
  \/ Return(1)
  \/ Tick

Spec == Init /\ [][Next]_vars

\* ------------------------------------------------------------------------
\* The operations of the ID-token flow
\* ------------------------------------------------------------------------

\* The application calls Auth.Redirect and the browser takes the response.
\* Whether the headers of a call that panicked reach the browser is up to
\* the caller, which may recover and answer or drop the connection.
Redirect ==
  /\ \E method \in {"GET", "POST"}, draw \in randBytes(NonceBytes) :
       /\ last' = Op("Redirect", method, EmptyStr, NoCookie, now, "none",
                     RedirectResponse(ClientID, AuthURL, AppHost, method, draw),
                     EmptyStr, Nil)
       /\ \/ jar' = Apply(jar, last'.resp.cookies)
          \/ /\ last'.resp.status = 0
             /\ jar' = jar
  /\ UNCHANGED <<now, pending, indirectVars, built>>

\* A request reaches /auth/callback with the cookies of the browser and,
\* when it is not a GET, an id_token form value.  A GET is answered at once
\* with the relay page; any other request goes to the verifier, where it
\* waits for its finding next to the requests already waiting.  The
\* requests drawn are those that leave the flow within MaxTokenFaults
\* departures from a well-formed login.
handleStart ==
  /\ \E method \in {"GET", "POST"}, idToken \in TokenStrings :
       /\ method = "GET" => idToken = EmptyStr
       /\ Departures(InPlay(pending, jar[tokenCookie],
                            IF method = "GET" THEN {} ELSE {idToken}),
                     BagCardinality(pending) + (IF method = "GET" THEN 0 ELSE 1))
            <= MaxTokenFaults
       /\ IF method = "GET"
          THEN /\ last' = Op("handle", method, idToken, jar[nonceCookie], now,
                             "none",
                             handleResponse(ClientID, method, idToken,
                                            jar[nonceCookie], now, "none"),
                             EmptyStr, Nil)
               /\ jar' = Apply(jar, last'.resp.cookies)
               /\ UNCHANGED pending
          ELSE /\ pending' = pending (+) One(Pending("handle", method, idToken,
                                                     jar[nonceCookie], now))
               /\ last' = NoOp
               /\ UNCHANGED jar
  /\ UNCHANGED <<now, indirectVars, built>>

\* The verifier returns to Auth.handle for one of the waiting requests, with
\* one finding or the other: handle writes its response and the browser
\* takes it, into the cookies it holds by then.
handleFinish ==
  /\ \E p \in BagToSet(pending), sig \in SignatureFindings :
       /\ p.op = "handle"
       /\ last' = Op("handle", p.method, p.token, p.cookie, p.at, sig,
                     handleResponse(ClientID, p.method, p.token, p.cookie,
                                    p.at, sig),
                     EmptyStr, Nil)
       /\ jar' = Apply(jar, last'.resp.cookies)
       /\ pending' = pending (-) One(p)
  /\ UNCHANGED <<now, indirectVars, built>>

\* The application calls Auth.User on a request with the browser's cookies:
\* without a token cookie User returns at once, with one the token goes to
\* the verifier, next to the requests already waiting when that leaves the
\* flow within MaxTokenFaults departures.
UserStart ==
  /\ IF ~jar[tokenCookie].set
     THEN /\ last' = Op("User", "GET", EmptyStr, jar[tokenCookie], now, "none",
                        Response(0, EmptyStr, <<>>, <<>>,
                                 UserSteps(jar[tokenCookie])),
                        UserResult(ClientID, jar[tokenCookie], now, "none").email,
                        UserResult(ClientID, jar[tokenCookie], now, "none").err)
          /\ UNCHANGED pending
     ELSE /\ \/ pending = NoPending
             \/ Departures(InPlay(pending, jar[tokenCookie], {}),
                           BagCardinality(pending) + 1) <= MaxTokenFaults
          /\ pending' = pending (+) One(Pending("User", "GET",
                                                jar[tokenCookie].value,
                                                jar[tokenCookie], now))
          /\ last' = NoOp
  /\ UNCHANGED <<now, jar, indirectVars, built>>

\* The verifier returns to Auth.User for one of the waiting calls, with one
\* finding or the other, and User returns.
UserFinish ==
  /\ \E p \in BagToSet(pending), sig \in SignatureFindings :
       /\ p.op = "User"
       /\ last' = Op("User", "GET", p.token, p.cookie, p.at, sig,
                     Response(0, EmptyStr, <<>>, <<>>, UserSteps(p.cookie)),
                     UserResult(ClientID, p.cookie, p.at, sig).email,
                     UserResult(ClientID, p.cookie, p.at, sig).err)
       /\ pending' = pending (-) One(p)
  /\ UNCHANGED <<now, jar, indirectVars, built>>

\* The client edits its own cookies: it drops one or gives one any value
\* that leaves the flow within MaxTokenFaults departures.
ClientSetsCookie ==
  /\ \E n \in CookieNames :
       \E c \in {NoCookie} \cup
                {Cookie(TRUE, v) : v \in IF n = nonceCookie THEN NonceStrings
                                         ELSE TokenStrings} :
         /\ jar[n] # c
         /\ n = tokenCookie =>
              Departures(InPlay(pending, c, {}), BagCardinality(pending))
                <= MaxTokenFaults
         /\ jar' = [jar EXCEPT ![n] = c]
  /\ last' = NoOp
  /\ UNCHANGED <<now, pending, indirectVars, built>>

NextToken ==
  \/ Redirect
  \/ handleStart
  \/ handleFinish
  \/ UserStart
  \/ UserFinish
  \/ ClientSetsCookie
  \/ Tick

SpecToken == InitToken /\ [][NextToken]_vars

\* ------------------------------------------------------------------------
\* Building the authentication request
\* ------------------------------------------------------------------------

\* The application calls RedirectURL(endpoint, returnTo), or New(endpoint,
\* returnTo) and RedirectURL() on the helper.
Build ==
  /\ built = NotBuilt
  /\ \E fn \in {"RedirectURL", "New"}, endpoint \in Endpoints,
        returnTo \in ReturnTos :
       built' = RedirectURL(fn, endpoint, returnTo)
  /\ UNCHANGED <<now, indirectVars, tokenVars>>

\* The application has used the URL, or recovered from the panic.
BuildReturn ==
  /\ built # NotBuilt
  /\ built' = NotBuilt
  /\ UNCHANGED <<now, indirectVars, tokenVars>>

NextBuild ==
  \/ Build
  \/ BuildReturn

SpecBuild == InitToken /\ [][NextBuild]_vars

\* ------------------------------------------------------------------------
\* Concurrent Verify calls
\* ------------------------------------------------------------------------

\* The callbacks concurrent calls draw from: the well-formed one, one per
\* gate that fails it, and one whose nonce stays fresh a second longer.
ConcurrentScenarios ==
  {Base,
   [Base EXCEPT !.signed = SignedList(Without(AllSix, "response_nonce"))],
   [Base EXCEPT !.reply = Reply("body", <<NsLine, NL, "is_valid:false", NL>>)],
   [Base EXCEPT !.returnTo = URLString("https", AppHost, S("/other"), <<>>)],
   [Base EXCEPT !.nonce = Stamp("0", "1") \o S("x")]}

\* The server has one helper, built for https://app.example/cb.
InitConcurrent ==
  /\ realm = Realm(URLString("https", AppHost, S("/cb"), <<>>))
  /\ now = ClockStart
  /\ calls = [c \in CallIds |-> Idle]
  /\ jar = [n \in CookieNames |-> NoCookie]
  /\ last = NoOp
  /\ pending = NoPending
  /\ built = NotBuilt

\* A callback arrives on its own goroutine while other calls are under way.
ConcurrentStart(c) ==
  /\ calls[c].pc = "idle"
  /\ \E variant \in {"pkg", "auth"}, x \in ConcurrentScenarios :
       \E call \in StartedCall(Begun(variant, x), realm) :
         calls' = [calls EXCEPT ![c] = call]
  /\ UNCHANGED <<realm, now, tokenVars, built>>

\* Any number of Verify calls, up to MaxCalls, run interleaved.
NextConcurrent ==
  \/ \E c \in CallIds : ConcurrentStart(c)
  \/ \E c \in CallIds : VerifyFinish(c)
  \/ \E c \in CallIds : Return(c)
  \/ Tick

SpecConcurrent == InitConcurrent /\ [][NextConcurrent]_vars

\* ------------------------------------------------------------------------
\* Vocabulary of the claims about the indirect flow
\* ------------------------------------------------------------------------

Param(c, name) == Get(calls[c].r.query, OpenID(name))

\* The token t is a whole item of the list s whose items sep separates.
Item(s, t, sep) ==
  \E i \in 1..Len(s) :
    /\ s[i] = t
    /\ (i = 1 \/ s[i - 1] = sep)
    /\ (i = Len(s) \/ s[i + 1] = sep)

\* The fields the provider must have signed for call c's callback.
MustBeSigned(c) ==
  {"op_endpoint", "return_to", "response_nonce", "assoc_handle"}
  \cup (IF Param(c, "claimed_id") # EmptyStr THEN {"claimed_id"} ELSE {})
  \cup (IF Param(c, "identity") # EmptyStr THEN {"identity"} ELSE {})

Unsigned(c) == {f \in MustBeSigned(c) : ~Item(Param(c, "signed"), f, ",")}

\* The provider's answer to call c's POST is a body with both lines.
ProviderConfirms(c) ==
  /\ calls[c].provider.kind = "body"
  /\ Item(calls[c].provider.content, IsValidLine, NL)
  /\ Item(calls[c].provider.content, NsLine, NL)

Began(c) == calls[c].pc # "idle"
Done(c) == calls[c].pc = "done"
Failed(c) == Done(c) /\ calls[c].err # NoErr
Succeeded(c) == Done(c) /\ calls[c].err = NoErr

\* Call c entered gate g / returned an error from gate g.
Entered(c, g) == \E i \in 1..Len(calls[c].gates) : calls[c].gates[i] = g
FailedAt(c, g) ==
  /\ Failed(c)
  /\ calls[c].gates # <<>>
  /\ calls[c].gates[Len(calls[c].gates)] = g

\* Call c is past gate g without an error from it.
Passed(c, g) ==
  \/ Entered(c, g + 1)
  \/ Entered(c, g) /\ Succeeded(c)

\* ------------------------------------------------------------------------
\* C1: the gates run in the order 1, 2, 3, 4 and the first failing gate
\* ends the call; a callback missing a required signed field fails at
\* gate 1 and no re-verification POST is sent, whatever the provider would
\* answer and whatever gates 3 and 4 would say.
\* ------------------------------------------------------------------------
C1_GateOrder ==
  \A c \in CallIds :
    /\ \E n \in 0..4 : calls[c].gates = [i \in 1..n |-> i]
    /\ Len(calls[c].posts) = (IF Entered(c, 2) THEN 1 ELSE 0)
    /\ Entered(c, 2) => Unsigned(c) = {}
    /\ Entered(c, 3) => ProviderConfirms(c)
    /\ Entered(c, 4) =>
         ReturnToGate(calls[c].variant, realm, calls[c].r) = NoErr
    /\ FailedAt(c, 2) => ~ProviderConfirms(c)
    /\ FailedAt(c, 3) =>
         ReturnToGate(calls[c].variant, realm, calls[c].r) = calls[c].err
    /\ FailedAt(c, 4) =>
         verifyNonce(calls[c].r.query, calls[c].at) = calls[c].err
    /\ (Began(c) /\ Unsigned(c) # {}) =>
         /\ Done(c)
         /\ calls[c].gates = <<1>>
         /\ calls[c].err.msg = ErrUnsigned
         /\ calls[c].posts = <<>>

\* A callback whose only defect is that response_nonce is not signed, with a
\* provider that would confirm it, has failed at gate 1 without a POST.
C1_Witness ==
  \E c \in CallIds :
    /\ calls[c].r =
         Request([Base EXCEPT !.signed =
                    SignedList(Without(AllSix, "response_nonce"))])
    /\ ProviderConfirms(c)
    /\ now = ClockStart
    /\ FailedAt(c, 1)
    /\ calls[c].posts = <<>>

\* ------------------------------------------------------------------------
\* C2: verification is all-or-nothing: a nil error only when all four gates
\* passed for the request, and every failing call returns the empty
\* identifier with its error.
\* ------------------------------------------------------------------------
C2_AllOrNothing ==
  \A c \in CallIds :
    /\ Succeeded(c) =>
         /\ calls[c].gates = <<1, 2, 3, 4>>
         /\ Unsigned(c) = {}
         /\ ProviderConfirms(c)
         /\ ReturnToGate(calls[c].variant, realm, calls[c].r) = NoErr
         /\ verifyNonce(calls[c].r.query, calls[c].at) = NoErr
         /\ calls[c].id = Param(c, "claimed_id")
    /\ ~Succeeded(c) => calls[c].id = EmptyStr

\* A call has returned the claimed identifier with a nil error.
C2_Witness ==
  \E c \in CallIds : Succeeded(c) /\ calls[c].id = ClaimedID

\* ------------------------------------------------------------------------
\* Vocabulary of the claims about the ID-token flow
\* ------------------------------------------------------------------------

\* The last operation was a request to the login callback that was not a GET.
CallbackPost == last.op = "handle" /\ last.method # "GET"

\* The response stores a session cookie: a Set-Cookie of the token cookie
\* that does not delete it.
SetsSession(resp) ==
  \E i \in 1..Len(resp.cookies) :
    resp.cookies[i].name = tokenCookie /\ resp.cookies[i].maxAge >= 0

\* The token string carries a token whose email_verified claim is false.
Unverified(token) == token # EmptyStr /\ ~token[1].verified

\* ------------------------------------------------------------------------
\* C3: the login callback writes the session cookie only when the posted
\* token passed verification with the expiry check on and the nonce of the
\* token equals the nonce cookie of the same request; with the nonce cookie
\* missing or different no session cookie is set.  On success the handler
\* verifies, compares the nonce, deletes the nonce cookie, stores the token
\* in the session cookie and redirects to "/", in that order.
\* ------------------------------------------------------------------------
C3_Callback ==
  (last.op = "handle" /\ SetsSession(last.resp)) =>
    /\ last.method # "GET"
    /\ verify(ClientID, last.token, FALSE, last.at, last.sig).err = Nil
    /\ last.cookie.set
    /\ last.cookie.value = last.token[1].nonce
    /\ last.resp.steps =
         <<"verify", "nonce", "deleteCookie", "setCookie", "redirect">>
    /\ Len(last.resp.cookies) = 2
    /\ last.resp.cookies[1].name = nonceCookie
    /\ last.resp.cookies[1].maxAge < 0
    /\ last.resp.cookies[2].name = tokenCookie
    /\ last.resp.cookies[2].value = last.token
    /\ last.resp.status = StatusFound
    /\ last.resp.location = S("/")
    /\ jar = [n \in CookieNames |->
                IF n = tokenCookie THEN Cookie(TRUE, last.token) ELSE NoCookie]

\* A POST whose token verified and whose nonce equals the nonce cookie was
\* answered with the session cookie and the redirect to "/".
C3_Witness ==
  /\ CallbackPost
  /\ SetsSession(last.resp)
  /\ last.cookie = Cookie(TRUE, last.token[1].nonce)
  /\ last.resp.status = StatusFound
  /\ jar[tokenCookie] = Cookie(TRUE, last.token)

\* ------------------------------------------------------------------------
\* C4: verification fails for every token whose email_verified claim is
\* false, however well signed, issued and addressed and whatever its nonce:
\* the login callback answers such a token with an error and no session
\* cookie, and User returns an error and no email for it.
\* ------------------------------------------------------------------------
C4_EmailVerified ==
  /\ \A token \in TokenStrings, skipExpiry \in BOOLEAN, sig \in SignatureFindings :
       Unverified(token) =>
         verify(ClientID, token, skipExpiry, now, sig).err # Nil
  /\ (CallbackPost /\ Unverified(last.token)) =>
       /\ last.resp.status = StatusInternalServerError
       /\ ~SetsSession(last.resp)
       /\ last.resp.cookies = <<>>
  /\ (last.op = "User" /\ last.cookie.set /\ Unverified(last.token)) =>
       /\ last.err # Nil
       /\ last.email = EmptyStr

\* The callback refused a token that is BaseToken but for email_verified,
\* posted before its expiry with the matching nonce cookie.
C4_Witness ==
  /\ CallbackPost
  /\ last.token = <<[BaseToken EXCEPT !.verified = FALSE]>>
  /\ last.cookie = Cookie(TRUE, BaseToken.nonce)
  /\ last.sig = "ok"
  /\ last.at <= BaseToken.exp
  /\ last.resp.status = StatusInternalServerError
  /\ last.resp.body =
       <<"Invalid ID token: ", "email not verified: ">> \o BaseToken.email \o <<NL>>

\* ------------------------------------------------------------------------
\* C5: gate 1 passes exactly when openid.signed lists op_endpoint,
\* return_to, response_nonce and assoc_handle, and claimed_id / identity
\* whenever the callback carries them; otherwise its error names a field
\* that is required and not listed.
\* ------------------------------------------------------------------------
C5_SignedFields ==
  \A c \in CallIds :
    Entered(c, 1) =>
      /\ Passed(c, 1) <=> Unsigned(c) = {}
      /\ FailedAt(c, 1) =>
           /\ calls[c].err.msg = ErrUnsigned
           /\ \E f \in Unsigned(c) : calls[c].err.field = S(f)

\* A callback without openid.claimed_id, whose list does not name
\* claimed_id, is past gate 1.
C5_Witness ==
  \E c \in CallIds :
    /\ Passed(c, 1)
    /\ Param(c, "claimed_id") = EmptyStr
    /\ ~Item(Param(c, "signed"), "claimed_id", ",")

\* ------------------------------------------------------------------------
\* C6: gate 2 passes only when the provider's reply holds both the line
\* is_valid:true and the line ns:http://specs.openid.net/auth/2.0; a reply
\* with one of the two only, with is_valid:false in place of is_valid:true,
\* or empty fails it, and so does a failure of the POST or of reading the
\* body.
\* ------------------------------------------------------------------------
C6_Reverification ==
  \A c \in CallIds :
    /\ Passed(c, 2) => ProviderConfirms(c)
    /\ (Done(c) /\ Entered(c, 2) /\ ~ProviderConfirms(c)) =>
         /\ FailedAt(c, 2)
         /\ calls[c].err.msg =
              (CASE calls[c].provider.kind = "neterr" -> ErrPost
                 [] calls[c].provider.kind = "readerr" -> ErrRead
                 [] OTHER -> ErrAssertion)

\* A reply holding is_valid:true but no namespace line was refused.
C6_Witness ==
  \E c \in CallIds :
    /\ FailedAt(c, 2)
    /\ calls[c].err.msg = ErrAssertion
    /\ Item(calls[c].provider.content, IsValidLine, NL)
    /\ ~Item(calls[c].provider.content, NsLine, NL)

\* ------------------------------------------------------------------------
\* Gate 3: what the claims compare
\* ------------------------------------------------------------------------

ReturnTo(c) == Parse(Param(c, "return_to"))

\* Call c reached gate 3 with a return_to that parses.
AtReturnTo(c) == Entered(c, 3) /\ ReturnTo(c).ok

\* The host the code holds the callback to: the Host header for the
\* package-level Verify, the host of the configured realm for Auth.Verify.
BoundHost(c) ==
  IF calls[c].variant = "pkg" THEN calls[c].r.host ELSE Parse(realm).host

\* The scheme of the URL rebuilt for the live request: that of the realm for
\* Auth.Verify; the package-level Verify has no realm, the request came in
\* by r.scheme.
LiveScheme(c) ==
  IF calls[c].variant = "pkg" THEN calls[c].r.scheme ELSE Parse(realm).scheme

\* The (key, value) pairs of a Values.
Pairs(vals) == {vals[i] : i \in 1..Len(vals)}

\* ------------------------------------------------------------------------
\* C7 as stated: a callback whose return_to host or path differs from the
\* host or path of the request received fails gate 3 with the return-URL
\* mismatch, whatever gate 2 said.
\* ------------------------------------------------------------------------
C7_Original ==
  \A c \in CallIds :
    (/\ Done(c) /\ AtReturnTo(c)
     /\ \/ ReturnTo(c).host # calls[c].r.host
        \/ ReturnTo(c).path # calls[c].r.path)
      => (FailedAt(c, 3) /\ calls[c].err.msg = ErrReturnTo)

\* ------------------------------------------------------------------------
\* C7 amended: a callback whose return_to path differs from the path of the
\* request received, or whose return_to host differs from the request's
\* Host header (package-level Verify) or from the host of the configured
\* realm (Auth.Verify), fails gate 3 with the return-URL mismatch although
\* the provider confirmed the assertion in gate 2.
\* ------------------------------------------------------------------------
C7_ReturnToHostPath ==
  \A c \in CallIds :
    (/\ Done(c) /\ AtReturnTo(c)
     /\ \/ ReturnTo(c).host # BoundHost(c)
        \/ ReturnTo(c).path # calls[c].r.path)
      => (FailedAt(c, 3) /\ calls[c].err.msg = ErrReturnTo)

\* The provider confirmed a callback to /cb whose return_to names /other,
\* and the call failed with the mismatch.
C7_Witness ==
  \E c \in CallIds :
    /\ ProviderConfirms(c)
    /\ calls[c].r.path = S("/cb")
    /\ ReturnTo(c).ok /\ ReturnTo(c).path = S("/other")
    /\ ReturnTo(c).host = calls[c].r.host
    /\ FailedAt(c, 3)
    /\ calls[c].err.msg = ErrReturnTo

\* ------------------------------------------------------------------------
\* C8 as stated: gate 3 compares the scheme too: a callback whose return_to
\* scheme differs from the scheme of the URL rebuilt for the live request
\* fails with the return-URL mismatch.
\* ------------------------------------------------------------------------
C8_Original ==
  \A c \in CallIds :
    (Done(c) /\ AtReturnTo(c) /\ ReturnTo(c).scheme # LiveScheme(c))
      => (FailedAt(c, 3) /\ calls[c].err.msg = ErrReturnTo)

\* ------------------------------------------------------------------------
\* C8 amended: gate 3 of Auth.Verify compares the scheme as well as host
\* and path: a callback whose return_to scheme differs from the scheme of
\* the realm fails with the return-URL mismatch.  The package-level Verify
\* does not compare the scheme.
\* ------------------------------------------------------------------------
C8_AuthScheme ==
  \A c \in CallIds :
    (/\ Done(c) /\ AtReturnTo(c)
     /\ calls[c].variant = "auth"
     /\ ReturnTo(c).scheme # Parse(realm).scheme)
      => (FailedAt(c, 3) /\ calls[c].err.msg = ErrReturnTo)

\* Auth.Verify refused a callback that differs from the rebuilt URL in the
\* scheme only.
C8_Witness ==
  \E c \in CallIds :
    /\ calls[c].variant = "auth"
    /\ ReturnTo(c).ok
    /\ ReturnTo(c).scheme # Parse(realm).scheme
    /\ ReturnTo(c).host = Parse(realm).host
    /\ ReturnTo(c).path = calls[c].r.path
    /\ FailedAt(c, 3)
    /\ calls[c].err.msg = ErrReturnTo

\* ------------------------------------------------------------------------
\* C9: gate 3 passes only if every query parameter of return_to is in the
\* live request's query with the same value, repeated keys included; a
\* return_to parameter the request lacks, or holds with another value,
\* fails the gate.
\* ------------------------------------------------------------------------
C9_Params ==
  \A c \in CallIds :
    (AtReturnTo(c) /\ Passed(c, 3))
      => Pairs(ParseQuery(ReturnTo(c).rawquery)) \subseteq Pairs(calls[c].r.query)

\* ------------------------------------------------------------------------
\* Gate 4: what the claims compare
\* ------------------------------------------------------------------------

Nonce(c) == Param(c, "response_nonce")

\* The nonce of call c has 20 characters or more and they begin with a
\* timestamp.
WellFormedNonce(c) ==
  /\ Len(Nonce(c)) >= TimestampLen
  /\ ParseRFC3339(SubSeq(Nonce(c), 1, TimestampLen)).ok

\* How old the nonce was when verifyNonce read the clock, in milliseconds.
NonceAge(c) ==
  calls[c].at - ParseRFC3339(SubSeq(Nonce(c), 1, TimestampLen)).ms

AtNonce(c) == Done(c) /\ Entered(c, 4)

\* ------------------------------------------------------------------------
\* C10 as stated: gate 4 reads the first 20 characters of the nonce as a
\* timestamp; a nonce more than 60 seconds old fails, every well-formed
\* nonce at most 60 seconds old passes, a nonce shorter than 20 characters
\* or with an unparsable prefix fails.
\* ------------------------------------------------------------------------
C10_Original ==
  \A c \in CallIds :
    AtNonce(c) =>
      /\ ~WellFormedNonce(c) => FailedAt(c, 4)
      /\ (WellFormedNonce(c) /\ NonceAge(c) > Minute) => FailedAt(c, 4)
      /\ (WellFormedNonce(c) /\ NonceAge(c) <= Minute) => Succeeded(c)

\* ------------------------------------------------------------------------
\* C10 amended: as stated, except that a well-formed nonce at most 60
\* seconds old passes only if it is at most 256 characters long; a longer
\* nonce fails as invalid.
\* ------------------------------------------------------------------------
C10_NonceWindow ==
  \A c \in CallIds :
    AtNonce(c) =>
      /\ ~WellFormedNonce(c) => FailedAt(c, 4)
      /\ (WellFormedNonce(c) /\ NonceAge(c) > Minute) => FailedAt(c, 4)
      /\ (WellFormedNonce(c) /\ NonceAge(c) <= Minute
          /\ Len(Nonce(c)) <= MaxNonceLen) => Succeeded(c)
      /\ Len(Nonce(c)) > MaxNonceLen =>
           (FailedAt(c, 4) /\ calls[c].err.msg = ErrNonceInvalid)

\* A nonce exactly 61 seconds old was refused as too old.
C10_Witness ==
  \E c \in CallIds :
    /\ AtNonce(c)
    /\ WellFormedNonce(c)
    /\ NonceAge(c) = Minute + 1000
    /\ calls[c].err.msg = ErrNonceOld

\* ------------------------------------------------------------------------
\* Concurrency: what the claims compare
\* ------------------------------------------------------------------------

\* The clock readings of the model.
ClockReadings == {ClockStart + 500 * k : k \in 0..MaxTicks}

\* What call returned is what Verify returns for its request, the provider's
\* reply to it and a reading of the clock, whatever other calls did.
AsAlone(call, errs) ==
  IF errs # {}
  THEN \E e \in errs :
         call = Returned([call EXCEPT !.posts = <<>>],
                         Outcome(GatesBeforePost(call.variant, realm, call.r),
                                 EmptyStr, e, 0))
  ELSE \E t \in ClockReadings :
         /\ call = Returned(Posting(call),
                            Verify(call.variant, realm, call.r, call.provider, t))
         /\ call.at \in {0, t}

\* ------------------------------------------------------------------------
\* C11: verification keeps no state between calls: under any interleaving
\* of concurrent Verify calls each call returns what it would return alone
\* for its request, the provider's reply and the clock, and a valid callback
\* submitted again while its nonce is at most 60 seconds old is accepted
\* again.
\* ------------------------------------------------------------------------
C11_Independent ==
  /\ \A c \in CallIds :
       Done(c) =>
         AsAlone(calls[c], BeforePost(calls[c].variant, realm, calls[c].r))
  /\ \A c, d \in CallIds :
       (/\ Succeeded(d) /\ Done(c)
        /\ calls[c].variant = calls[d].variant
        /\ calls[c].r = calls[d].r
        /\ ProviderConfirms(c)
        /\ Entered(c, 4) /\ NonceAge(c) <= Minute) => Succeeded(c)

\* Two calls verified the same callback, the second half a second or more
\* after the first, and both were accepted.
C11_Witness ==
  \E c, d \in CallIds :
    /\ c # d
    /\ Succeeded(c) /\ Succeeded(d)
    /\ calls[c].r = calls[d].r
    /\ calls[c].id = ClaimedID
    /\ calls[d].at > calls[c].at

\* ------------------------------------------------------------------------
\* The ID-token flow: what the claims compare
\* ------------------------------------------------------------------------

\* The value of parameter k in the query of a Location header.
LocationParam(location, k) ==
  Get(ParseQuery(From(location, IndexOf(location, "?") + 1)), S(k))

\* What the claim has a Redirect do: the session cookie deleted, the nonce
\* cookie set with its attributes to the nonce of the provider URL.
BindsNonce ==
  /\ last.resp.status = StatusFound
  /\ Len(last.resp.cookies) = 2
  /\ last.resp.cookies[1].name = tokenCookie
  /\ last.resp.cookies[1].maxAge < 0
  /\ last.resp.cookies[2] =
       [name |-> nonceCookie,
        value |-> LocationParam(last.resp.location, "nonce"),
        path |-> "/", maxAge |-> 3600,
        secure |-> TRUE, httpOnly |-> TRUE, sameSite |-> "Strict"]
  /\ Len(LocationParam(last.resp.location, "nonce")) = 2 * NonceBytes
  /\ jar[tokenCookie] = NoCookie
  /\ jar[nonceCookie] =
       Cookie(TRUE, LocationParam(last.resp.location, "nonce"))

\* ------------------------------------------------------------------------
\* C12: every Redirect deletes the session cookie and sets a nonce cookie
\* with Max-Age one hour, Secure, HttpOnly, SameSite=Strict and path "/",
\* whose value is the nonce parameter of the provider URL the same call
\* redirects to.
\* ------------------------------------------------------------------------
C12_Redirect == last.op = "Redirect" => BindsNonce

\* ------------------------------------------------------------------------
\* C14: User fails with the no-session error, without verifying anything,
\* when the request has no session cookie; with a cookie whose token fails
\* verification it fails with the invalid-session error that wraps the
\* verification error; either way it returns no identity.
\* ------------------------------------------------------------------------
C14_UserErrors ==
  last.op = "User" =>
    /\ ~last.cookie.set =>
         /\ last.err = <<"no auth token cookie">>
         /\ last.resp.steps = <<"cookie">>
    /\ (last.cookie.set
        /\ verify(ClientID, last.token, TRUE, last.at, last.sig).err # Nil) =>
         /\ last.err = <<"invalid ID token: ">>
                        \o verify(ClientID, last.token, TRUE, last.at, last.sig).err
         /\ last.resp.steps = <<"cookie", "verify">>
    /\ last.err # Nil => last.email = EmptyStr

\* User refused a session cookie whose token the verifier found badly
\* signed.
C14_Witness ==
  /\ last.op = "User"
  /\ last.token = <<BaseToken>>
  /\ last.sig = "bad"
  /\ last.err = <<"invalid ID token: ", "verifier: ", "signature">>
  /\ last.email = EmptyStr

\* ------------------------------------------------------------------------
\* C15: a GET to the callback path only returns the relay page: it verifies
\* no token and sets or deletes no cookie, so the nonce cookie and the
\* session cookie are as they were; verification and cookie changes come
\* with the request that posts the token.
\* ------------------------------------------------------------------------
C15_GetFrame ==
  /\ [](last.op = "handle" =>
          /\ last.method = "GET" =>
               /\ last.resp.status = StatusOK
               /\ last.resp.body = <<"relay page">>
               /\ last.resp.location = EmptyStr
               /\ last.resp.cookies = <<>>
               /\ last.resp.steps = <<"relay">>
          /\ last.method # "GET" => last.resp.steps[1] = "verify")
  /\ [][(last'.op = "handle" /\ last'.method = "GET") => jar' = jar]_vars

\* A browser holding a nonce cookie was served the relay page and still
\* holds the cookie.
C15_Witness ==
  /\ last.op = "handle"
  /\ last.method = "GET"
  /\ last.cookie.set
  /\ jar[nonceCookie] = last.cookie
  /\ last.resp.status = StatusOK

\* ------------------------------------------------------------------------
\* C16: the re-verification POST is bound to the cancellation of the
\* incoming request: a call whose request is cancelled while the POST is
\* outstanding fails at gate 2 with the verification-request error, and
\* gates 3 and 4 are not evaluated.
\* ------------------------------------------------------------------------
C16_Cancellation ==
  \A c \in CallIds :
    (Done(c) /\ calls[c].cancelled) =>
      /\ FailedAt(c, 2)
      /\ calls[c].err.msg = ErrPost
      /\ ~Entered(c, 3)

\* A well-formed return URL: a scheme that begins with a letter, "://", a
\* host with at most a numeric port after its last colon, then a path and
\* at most a query, with no broken percent-escape in host or path.  (The
\* realm is its scheme and host.)
WellFormed(u) ==
  \E c \in 2..Len(u) :
    LET q == IndexOf(u, "?")
        head == IF q = 0 THEN u ELSE SubSeq(u, 1, q - 1)
        after == From(head, c + 2)
        host == SubSeq(after, 1, FirstSlash(after) - 1)
    IN  /\ u[c] = ":"
        /\ \A j \in 1..(c - 1) : u[j] \notin NonSchemeTokens \cup {":"}
        /\ u[1] \notin Numerals
        /\ c + 2 <= Len(head)
        /\ head[c + 1] = SlashSlash
        /\ host # <<>>
        /\ host[1] # ":"
        /\ \A i \in 1..Len(host) :
             (host[i] = ":" /\ \A j \in (i + 1)..Len(host) : host[j] # ":")
               => \A j \in (i + 1)..Len(host) : host[j] \in Numerals
        /\ \A i \in 1..Len(head) : head[i] # BadEscape

\* ------------------------------------------------------------------------
\* C17: building the authentication request fails in one case only: a
\* malformed return URL fails with the configuration error, and every
\* well-formed return URL yields a redirect URL without an error.
\* ------------------------------------------------------------------------
C17_Build ==
  built.fn # "none" =>
    /\ ~WellFormed(built.returnTo) =>
         (built.panic /\ built.err = ErrURLParse /\ built.url = EmptyStr)
    /\ WellFormed(built.returnTo) =>
         /\ ~built.panic
         /\ built.err = ErrNil
         /\ SubSeq(built.url, 1, Len(built.endpoint)) = built.endpoint
         /\ built.url[Len(built.endpoint) + 1] =
              (IF \E i \in 1..Len(built.endpoint) : built.endpoint[i] = "?"
               THEN "&" ELSE "?")
         /\ Get(ParseQuery(From(built.url, Len(built.endpoint) + 2)),
                S("openid.mode")) = S("checkid_setup")

\* ------------------------------------------------------------------------
\* C18: a login-callback POST that fails (the token does not verify, the
\* request carries no nonce cookie, or the nonce of the token differs from
\* the cookie) is answered with an error response and nothing else: no
\* cookie is deleted or set, no redirect is issued, no step follows the
\* failed one, and the browser's cookies are as they were.
\* ------------------------------------------------------------------------
TokenRejected == verify(ClientID, last.token, FALSE, last.at, last.sig).err # Nil
NonceRejected ==
  /\ ~TokenRejected
  /\ \/ ~last.cookie.set
     \/ verify(ClientID, last.token, FALSE, last.at, last.sig).nonce # last.cookie.value
FailedPost == CallbackPost /\ (TokenRejected \/ NonceRejected)

C18_FailedPost ==
  /\ [](FailedPost =>
          /\ last.resp.status = StatusInternalServerError
          /\ last.resp.location = EmptyStr
          /\ last.resp.cookies = <<>>
          /\ ~SetsSession(last.resp)
          /\ TokenRejected =>
               /\ last.resp.steps = <<"verify">>
               /\ last.resp.body =
                    <<"Invalid ID token: ">>
                    \o verify(ClientID, last.token, FALSE, last.at, last.sig).err
                    \o <<NL>>
          /\ NonceRejected =>
               /\ last.resp.steps = <<"verify", "nonce">>
               /\ last.resp.body = <<"Invalid nonce", NL>>)
  /\ [](CallbackPost /\ last.resp.status = StatusInternalServerError
          => FailedPost)
  /\ [][FailedPost' => jar' = jar]_vars

\* A POST of a token that verifies, from a browser whose nonce cookie holds
\* another nonce, was answered with the error, and the browser still holds
\* its nonce cookie and has no session cookie.
C18_Witness ==
  /\ FailedPost
  /\ NonceRejected
  /\ last.cookie.set
  /\ jar[nonceCookie] = last.cookie
  /\ ~jar[tokenCookie].set
  /\ last.resp.status = StatusInternalServerError

\* ------------------------------------------------------------------------
\* C19: a Verify call sends at most one re-verification POST and never
\* sends it again: none when gate 1 fails, one otherwise.  The POST goes to
\* the openid.op_endpoint of the callback and carries, key by key, the
\* values of the callback, except for openid.mode, whose only value is
\* check_authentication.  A transport failure or a reply that does not
\* confirm ends the call at gate 2 with that one POST sent.
\* ------------------------------------------------------------------------
ValuesOf(v, k) ==
  LET at == SelectSeq(v, LAMBDA p : p.k = k)
  IN  [i \in 1..Len(at) |-> at[i].v]

C19_OnePost ==
  /\ [](\A c \in CallIds :
          /\ Len(calls[c].posts) <= 1
          /\ ~Began(c) => calls[c].posts = <<>>
          /\ Began(c) => (calls[c].posts = <<>> <=> Unsigned(c) # {})
          /\ (Began(c) /\ Unsigned(c) # {}) => FailedAt(c, 1)
          /\ calls[c].posts # <<>> =>
               /\ calls[c].posts[1].endpoint = Param(c, "op_endpoint")
               /\ ValuesOf(calls[c].posts[1].params, OpenID("mode"))
                    = <<S("check_authentication")>>
               /\ \A k \in Keys(calls[c].r.query)
                           \cup Keys(calls[c].posts[1].params) :
                    k # OpenID("mode") =>
                      ValuesOf(calls[c].posts[1].params, k)
                        = ValuesOf(calls[c].r.query, k)
          /\ (Done(c) /\ calls[c].posts # <<>> /\ ~ProviderConfirms(c)) =>
               /\ FailedAt(c, 2)
               /\ calls[c].gates = <<1, 2>>)
  /\ [][\A c \in CallIds :
          (calls[c].posts # <<>> /\ Began(c)')
            => calls[c].posts' = calls[c].posts]_vars

\* A callback naming another endpoint was re-verified there with one POST;
\* the POST failed in transport and the call ended at gate 2.
C19_Witness ==
  \E c \in CallIds :
    /\ FailedAt(c, 2)
    /\ calls[c].provider.kind = "neterr"
    /\ Param(c, "op_endpoint") = OtherEndpoint
    /\ Len(calls[c].posts) = 1
    /\ calls[c].posts[1].endpoint = OtherEndpoint

\* ------------------------------------------------------------------------
\* C20: whenever Verify returns a nil error, the identifier it returns is
\* the openid.claimed_id of the callback, it is not empty, and claimed_id
\* is in the openid.signed list: no call succeeds with an empty or unsigned
\* identifier.
\* ------------------------------------------------------------------------
C20_Identifier ==
  \A c \in CallIds :
    Succeeded(c) =>
      /\ calls[c].id = Param(c, "claimed_id")
      /\ calls[c].id # EmptyStr
      /\ Item(Param(c, "signed"), "claimed_id", ",")

\* A token that is well formed, issued by the provider for this client and
\* email-verified.
Acceptable(token) ==
  /\ token # EmptyStr
  /\ token[1].form = "jwt"
  /\ token[1].iss = Issuer
  /\ token[1].aud = ClientID
  /\ token[1].claims = "ok"
  /\ token[1].verified

SessionCookies == {NoCookie} \cup {Cookie(TRUE, v) : v \in TokenStrings}

\* ------------------------------------------------------------------------
\* C21: what User returns is a function of the token in the session cookie
\* alone: two histories that present the same token, of whose signature
\* the verifier finds the same, get the same result when they differ in the
\* clock reading (before or after the token expires), in what the nonce
\* cookie holds and in whether a login callback has accepted the token.  A
\* token that is well formed, issued by the provider for this client,
\* email-verified and found correctly signed by the verifier is accepted
\* from the cookie, and no other is.
\* ------------------------------------------------------------------------
C21_TokenAlone ==
  /\ \A c \in SessionCookies, t \in ClockReadings, sig \in SignatureFindings :
       UserResult(ClientID, c, t, sig)
         = UserResult(ClientID, c, ClockStart, sig)
  /\ last.op = "User" =>
       /\ last.email
            = UserResult(ClientID, last.cookie, ClockStart, last.sig).email
       /\ last.err
            = UserResult(ClientID, last.cookie, ClockStart, last.sig).err
       /\ last.err = Nil <=>
            (last.cookie.set /\ Acceptable(last.cookie.value)
             /\ last.sig = "ok")
       /\ last.err = Nil => last.email = last.cookie.value[1].email
       /\ last.err # Nil => last.email = EmptyStr

\* User accepted a token that had expired before the clock started, which
\* no login callback can have accepted, from a browser whose nonce cookie
\* holds a nonce other than the token's.
C21_Witness ==
  /\ last.op = "User"
  /\ last.err = Nil
  /\ last.email = S("user@example.com")
  /\ last.cookie.value[1].exp < ClockStart
  /\ jar[nonceCookie].set
  /\ jar[nonceCookie].value # last.cookie.value[1].nonce

====
